---- MODULE Spec2Model ----
(***************************************************************************)
(* Model of the MCPSample-Flight API gateway: the POST /chat pipeline of   *)
(* api-gateway/src/index.ts together with its two collaborators, chat()    *)
(* of api-gateway/src/llm.ts and searchFlightsViaMCP() of                  *)
(* api-gateway/src/mcpClient.ts, and the /mcp handler of                   *)
(* mcp-flight-server/src/index.ts that answers the search call.            *)
(*                                                                         *)
(* A JavaScript string is a sequence of word tokens, so that template      *)
(* literals are concatenations and the empty string is <<>>.  A text the   *)
(* LLM returns is such a sequence too; JSON.parse works on its tokens.     *)
(***************************************************************************)
EXTENDS Integers, Sequences, FiniteSets, TLC

(***************************************************************************)
(* Bounds of the model.                                                    *)
(***************************************************************************)
MaxReqs == 2
MaxOffers == 1
MaxCalls == 3
MaxTicks == 3
MaxMcp == 2

Reqs == 1..MaxReqs

(***************************************************************************)
(* JavaScript values.  Every value has the same record shape; elems holds  *)
(* the elements of an array, fields the [k, v] members of an object in     *)
(* insertion order.                                                        *)
(***************************************************************************)
JUndefined == [kind |-> "undefined", b |-> FALSE, n |-> 0, s |-> <<>>, elems |-> <<>>, fields |-> <<>>]
JNull == [kind |-> "null", b |-> FALSE, n |-> 0, s |-> <<>>, elems |-> <<>>, fields |-> <<>>]
JBool(x) == [kind |-> "bool", b |-> x, n |-> 0, s |-> <<>>, elems |-> <<>>, fields |-> <<>>]
JNum(x) == [kind |-> "num", b |-> FALSE, n |-> x, s |-> <<>>, elems |-> <<>>, fields |-> <<>>]
JStr(x) == [kind |-> "str", b |-> FALSE, n |-> 0, s |-> x, elems |-> <<>>, fields |-> <<>>]
JArr(x) == [kind |-> "arr", b |-> FALSE, n |-> 0, s |-> <<>>, elems |-> x, fields |-> <<>>]
JObj(x) == [kind |-> "obj", b |-> FALSE, n |-> 0, s |-> <<>>, elems |-> <<>>, fields |-> x]
JNaN == [kind |-> "nan", b |-> FALSE, n |-> 0, s |-> <<>>, elems |-> <<>>, fields |-> <<>>]

Member(k, v) == [k |-> k, v |-> v]

\* obj.key / obj?.key : the member's value, undefined when there is none
\* (and for a value that is not an object).
Get(obj, key) ==
  IF \E i \in 1..Len(obj.fields) : obj.fields[i].k = key
  THEN obj.fields[CHOOSE i \in 1..Len(obj.fields) : obj.fields[i].k = key].v
  ELSE JUndefined

\* Assignment of a member while an object literal is read: a repeated key
\* keeps its place and takes the later value.
SetField(fields, key, val) ==
  IF \E i \in 1..Len(fields) : fields[i].k = key
  THEN [i \in 1..Len(fields) |-> IF fields[i].k = key THEN Member(key, val) ELSE fields[i]]
  ELSE Append(fields, Member(key, val))

\* ToBoolean
Truthy(v) ==
  CASE v.kind = "undefined" -> FALSE
    [] v.kind = "null" -> FALSE
    [] v.kind = "bool" -> v.b
    [] v.kind = "num" -> v.n # 0
    [] v.kind = "nan" -> FALSE
    [] v.kind = "str" -> v.s # <<>>
    [] OTHER -> TRUE

Nullish(v) == v.kind \in {"undefined", "null"}

\* a || d  and  a ?? d
OrElse(a, d) == IF Truthy(a) THEN a ELSE d
Coalesce(a, d) == IF Nullish(a) THEN d ELSE a

\* x?.length > 0 : only strings and arrays have a length; the comparison of
\* undefined with 0 is false.
LengthPositive(x) ==
  CASE x.kind = "arr" -> Len(x.elems) > 0
    [] x.kind = "str" -> Len(x.s) > 0
    [] OTHER -> FALSE

\* `${v}` for the values a template literal meets here.
ToStringJS(v) ==
  CASE v.kind = "str" -> v.s
    [] v.kind = "undefined" -> <<"undefined">>
    [] v.kind = "null" -> <<"null">>
    [] v.kind = "bool" -> IF v.b THEN <<"true">> ELSE <<"false">>
    [] v.kind = "num" -> <<ToString(v.n)>>
    [] v.kind = "nan" -> <<"NaN">>
    [] v.kind = "arr" -> <<"array">>
    [] OTHER -> <<"[object Object]">>

RECURSIVE WireJSON(_)
RECURSIVE WireMembers(_)
\* The members of an object as JSON.stringify writes them: a member whose
\* value is undefined is left out.
WireMembers(fields) ==
  IF fields = <<>> THEN <<>>
  ELSE IF Head(fields).v.kind = "undefined" THEN WireMembers(Tail(fields))
  ELSE <<Member(Head(fields).k, WireJSON(Head(fields).v))>> \o WireMembers(Tail(fields))

\* A value after JSON.stringify on one side of an HTTP exchange and
\* JSON.parse on the other: undefined members are gone, an undefined array
\* element is null.
WireJSON(v) ==
  CASE v.kind = "obj" -> JObj(WireMembers(v.fields))
    [] v.kind = "arr" ->
         JArr([i \in 1..Len(v.elems) |->
                 IF v.elems[i].kind = "undefined" THEN JNull ELSE WireJSON(v.elems[i])])
    [] OTHER -> v

(***************************************************************************)
(* JSON.parse over the tokens of a text.  String and number literals are   *)
(* the tokens of StrLit and NumLit; every other word is not JSON.          *)
(***************************************************************************)
StrLit ==
  ("'intent'" :> <<"intent">>) @@ ("'search_flights'" :> <<"search_flights">>) @@
  ("'chitchat'" :> <<"chitchat">>) @@
  ("'origin'" :> <<"origin">>) @@ ("'destination'" :> <<"destination">>) @@
  ("'departDate'" :> <<"departDate">>) @@ ("'returnDate'" :> <<"returnDate">>) @@
  ("'round'" :> <<"round">>) @@ ("'adults'" :> <<"adults">>) @@
  ("'currency'" :> <<"currency">>) @@
  ("'ICN'" :> <<"ICN">>) @@ ("'JFK'" :> <<"JFK">>) @@ ("'KRW'" :> <<"KRW">>) @@
  ("'2025-03-17'" :> <<"2025-03-17">>) @@ ("'2025-03-24'" :> <<"2025-03-24">>) @@
  ("'title'" :> <<"title">>) @@ ("'summary'" :> <<"summary">>) @@
  ("'Local Food'" :> <<"Local", "Food">>) @@
  ("'Top Attractions'" :> <<"Top", "Attractions">>) @@
  ("'Travel Tips'" :> <<"Travel", "Tips">>) @@
  ("'Must-try dishes'" :> <<"Must-try", "dishes">>) @@
  ("''" :> <<>>)

NumLit == ("0" :> 0) @@ ("1" :> 1) @@ ("2" :> 2) @@ ("5" :> 5)

\* Number(s) for a string s.
ToNumberJS(s) ==
  IF Len(s) = 1 /\ s[1] \in DOMAIN NumLit THEN JNum(NumLit[s[1]])
  ELSE IF s = <<>> THEN JNum(0) ELSE JNaN

ParseOk(v, nxt) == [ok |-> TRUE, val |-> v, next |-> nxt]
ParseFail == [ok |-> FALSE, val |-> JUndefined, next |-> 0]

RECURSIVE ParseValue(_, _)
RECURSIVE ParseElems(_, _, _)
RECURSIVE ParseMembers(_, _, _)

\* One JSON value starting at token i.
ParseValue(t, i) ==
  IF i > Len(t) THEN ParseFail
  ELSE LET c == t[i] IN
    CASE c = "null" -> ParseOk(JNull, i + 1)
      [] c = "true" -> ParseOk(JBool(TRUE), i + 1)
      [] c = "false" -> ParseOk(JBool(FALSE), i + 1)
      [] c \in DOMAIN NumLit -> ParseOk(JNum(NumLit[c]), i + 1)
      [] c \in DOMAIN StrLit -> ParseOk(JStr(StrLit[c]), i + 1)
      [] c = "[" ->
           IF i + 1 <= Len(t) /\ t[i + 1] = "]"
           THEN ParseOk(JArr(<<>>), i + 2)
           ELSE ParseElems(t, i + 1, <<>>)
      [] c = "{" ->
           IF i + 1 <= Len(t) /\ t[i + 1] = "}"
           THEN ParseOk(JObj(<<>>), i + 2)
           ELSE ParseMembers(t, i + 1, <<>>)
      [] OTHER -> ParseFail

\* The elements of an array after "[" or ",", up to the closing "]".
ParseElems(t, i, acc) ==
  LET r == ParseValue(t, i) IN
  IF ~r.ok \/ r.next > Len(t) THEN ParseFail
  ELSE IF t[r.next] = "," THEN ParseElems(t, r.next + 1, Append(acc, r.val))
  ELSE IF t[r.next] = "]" THEN ParseOk(JArr(Append(acc, r.val)), r.next + 1)
  ELSE ParseFail

\* The members of an object after "{" or ",", up to the closing "}".
ParseMembers(t, i, acc) ==
  IF i + 1 > Len(t) \/ t[i] \notin DOMAIN StrLit \/ t[i + 1] # ":" THEN ParseFail
  ELSE LET r == ParseValue(t, i + 2) IN
    IF ~r.ok \/ r.next > Len(t) THEN ParseFail
    ELSE IF t[r.next] = ","
         THEN ParseMembers(t, r.next + 1, SetField(acc, StrLit[t[i]], r.val))
    ELSE IF t[r.next] = "}"
         THEN ParseOk(JObj(SetField(acc, StrLit[t[i]], r.val)), r.next + 1)
    ELSE ParseFail

\* JSON.parse(text): the value, or threw when the text is not one JSON value.
JSONParse(t) ==
  LET r == ParseValue(t, 1) IN
  IF r.ok /\ r.next = Len(t) + 1
  THEN [threw |-> FALSE, val |-> r.val]
  ELSE [threw |-> TRUE, val |-> JUndefined]

(***************************************************************************)
(* chat() of llm.ts.  upstream is what the provider SDK call does: it      *)
(* throws, or it resolves with the provider's response.                    *)
(***************************************************************************)
Raised == [raised |-> TRUE, text |-> <<>>]
Returned(t) == [raised |-> FALSE, text |-> t]

RECURSIVE JoinTextBlocks(_)
\* response.content.filter(isTextBlock).map((c) => c.text).join("")
JoinTextBlocks(blocks) ==
  IF blocks = <<>> THEN <<>>
  ELSE IF Head(blocks).type = "text"
       THEN Head(blocks).text \o JoinTextBlocks(Tail(blocks))
       ELSE JoinTextBlocks(Tail(blocks))

\* response.choices[0]?.message?.content || ""
OpenAIText(up) == IF up.hasContent /\ up.content # <<>> THEN up.content ELSE <<>>

Chat(up) ==
  CASE up.kind = "anthropic" -> Returned(JoinTextBlocks(up.blocks))
    [] up.kind = "openai" -> Returned(OpenAIText(up))
    [] OTHER -> Raised

UpThrows == [kind |-> "throws", hasContent |-> FALSE, content |-> <<>>, blocks |-> <<>>]
UpOpenAI(t) == [kind |-> "openai", hasContent |-> TRUE, content |-> t, blocks |-> <<>>]
UpOpenAINoContent == [kind |-> "openai", hasContent |-> FALSE, content |-> <<>>, blocks |-> <<>>]
UpAnthropic(t) ==
  [kind |-> "anthropic", hasContent |-> FALSE, content |-> <<>>,
   blocks |-> <<[type |-> "tool_use", text |-> <<"ignored">>], [type |-> "text", text |-> t]>>]

\* Every way the provider can answer with one of the texts in T.
Upstreams(T) ==
  {UpThrows, UpOpenAINoContent} \cup {UpOpenAI(t) : t \in T} \cup {UpAnthropic(t) : t \in T}

(***************************************************************************)
(* The texts the LLM is given to return, one set per step of the pipeline. *)
(***************************************************************************)
ProseText == <<"I'd", "love", "to", "help", "you", "plan", "a", "trip!">>

IntentFull ==
  <<"{", "'intent'", ":", "'search_flights'", ",", "'origin'", ":", "'ICN'", ",",
    "'destination'", ":", "'JFK'", ",", "'departDate'", ":", "'2025-03-17'", ",",
    "'returnDate'", ":", "'2025-03-24'", ",", "'round'", ":", "true", ",",
    "'adults'", ":", "2", ",", "'currency'", ":", "'KRW'", "}">>

IntentMinimal ==
  <<"{", "'intent'", ":", "'search_flights'", ",", "'origin'", ":", "'ICN'", ",",
    "'destination'", ":", "'JFK'", ",", "'departDate'", ":", "'2025-03-17'", "}">>

\* Texts that are not JSON (empty, prose, an intent followed by a word), JSON
\* without the search intent (null, another tag, the intent inside an
\* array) and a search intent.
IntentTexts ==
  { <<>>, ProseText, IntentFull \o <<"Enjoy!">>,
    <<"null">>,
    <<"{", "'intent'", ":", "'chitchat'", "}">>,
    <<"[", "{", "'intent'", ":", "'search_flights'", "}", "]">>,
    IntentMinimal }

SummaryTexts == { <<>>, <<"Cheapest", "is", "$890">> }

LLMCard ==
  <<"{", "'title'", ":", "'Local Food'", ",", "'summary'", ":", "'Must-try dishes'", "}">>

\* Not JSON (a truncated array; the empty text comes with every step),
\* arrays (empty, three cards, three elements that are no cards) and JSON
\* that is no array.
CardsTexts ==
  { <<"[", "{">>,
    <<"[", "]">>,
    <<"[">> \o LLMCard \o <<",">> \o LLMCard \o <<",">> \o LLMCard \o <<"]">>,
    <<"[", "1", ",", "null", ",", "'title'", "]">>,
    LLMCard }

(***************************************************************************)
(* The flight server: searchFlightsAmadeus and the POST /mcp handler of    *)
(* mcp-flight-server/src/index.ts.  amadeus is what the Amadeus side does  *)
(* for this call: the token request fails, the offers request fails, or    *)
(* the offers request answers with n offers (or with no data member).      *)
(***************************************************************************)
Offer(i) == JObj(<<Member(<<"id">>, JNum(i))>>)
Offers(n) == [i \in 1..n |-> Offer(i)]

AmadeusOutcomes ==
  {[kind |-> "oauth_error", hasData |-> FALSE, n |-> 0],
   [kind |-> "api_error", hasData |-> FALSE, n |-> 0],
   [kind |-> "ok", hasData |-> FALSE, n |-> 0]}
  \cup {[kind |-> "ok", hasData |-> TRUE, n |-> k] : k \in 0..MaxOffers}

\* searchFlightsAmadeus(params): {currency, items}, or it throws.
searchFlightsAmadeus(params, amadeus) ==
  IF amadeus.kind # "ok"
  THEN [threw |-> TRUE, val |-> JUndefined]
  ELSE [threw |-> FALSE,
        val |-> JObj(<<Member(<<"currency">>, Coalesce(Get(params, <<"currency">>), JStr(<<"USD">>))),
                       Member(<<"items">>,
                              IF amadeus.hasData THEN JArr(Offers(amadeus.n)) ELSE JArr(<<>>))>>)]

\* The response as the client reads it with response.json(); a body of
\* undefined stands for a body that is not JSON.
HttpResponse(st, b) == [status |-> st, body |-> WireJSON(b)]

\* Mutant of McpHandler: the error reply has no messageId and no sessionId.
McpHandlerErrorWithoutIds(mcpReq, amadeus) ==
  IF Get(mcpReq, <<"service">>) = JStr(<<"flight_search">>)
     /\ Get(mcpReq, <<"action">>) = JStr(<<"invoke">>)
  THEN LET res == searchFlightsAmadeus(Get(mcpReq, <<"payload">>), amadeus) IN
       IF ~res.threw
       THEN HttpResponse(200,
              JObj(<<Member(<<"messageId">>, Get(mcpReq, <<"messageId">>)),
                     Member(<<"sessionId">>, Get(mcpReq, <<"sessionId">>)),
                     Member(<<"service">>, JStr(<<"flight_search">>)),
                     Member(<<"action">>, JStr(<<"result">>)),
                     Member(<<"result">>, res.val),
                     Member(<<"metadata">>, JObj(<<Member(<<"source">>, JStr(<<"amadeus">>))>>))>>))
       ELSE HttpResponse(500,
              JObj(<<Member(<<"service">>, JStr(<<"flight_search">>)),
                     Member(<<"action">>, JStr(<<"result">>)),
                     Member(<<"result">>, JObj(<<>>)),
                     Member(<<"error">>,
                            JObj(<<Member(<<"code">>, JStr(<<"SEARCH_FAILED">>)),
                                   Member(<<"message">>, JStr(<<amadeus.kind>>))>>))>>))
  ELSE HttpResponse(400, JObj(<<Member(<<"error">>, JStr(<<"Unsupported", "MCP", "service", "or", "action">>))>>))

\* app.post("/mcp"): the HTTP response to the request body mcpReq.
McpHandler(mcpReq, amadeus) ==
  IF Get(mcpReq, <<"service">>) = JStr(<<"flight_search">>)
     /\ Get(mcpReq, <<"action">>) = JStr(<<"invoke">>)
  THEN LET res == searchFlightsAmadeus(Get(mcpReq, <<"payload">>), amadeus) IN
       IF ~res.threw
       THEN HttpResponse(200,
              JObj(<<Member(<<"messageId">>, Get(mcpReq, <<"messageId">>)),
                     Member(<<"sessionId">>, Get(mcpReq, <<"sessionId">>)),
                     Member(<<"service">>, JStr(<<"flight_search">>)),
                     Member(<<"action">>, JStr(<<"result">>)),
                     Member(<<"result">>, res.val),
                     Member(<<"metadata">>, JObj(<<Member(<<"source">>, JStr(<<"amadeus">>))>>))>>))
       ELSE HttpResponse(500,
              JObj(<<Member(<<"messageId">>, Get(mcpReq, <<"messageId">>)),
                     Member(<<"sessionId">>, Get(mcpReq, <<"sessionId">>)),
                     Member(<<"service">>, JStr(<<"flight_search">>)),
                     Member(<<"action">>, JStr(<<"result">>)),
                     Member(<<"result">>, JObj(<<>>)),
                     Member(<<"error">>,
                            JObj(<<Member(<<"code">>, JStr(<<"SEARCH_FAILED">>)),
                                   Member(<<"message">>, JStr(<<amadeus.kind>>))>>))>>))
  ELSE HttpResponse(400, JObj(<<Member(<<"error">>, JStr(<<"Unsupported", "MCP", "service", "or", "action">>))>>))

(***************************************************************************)
(* searchFlightsViaMCP of mcpClient.ts.  net says whether the flight       *)
(* server can be reached and what Amadeus does behind it.                  *)
(***************************************************************************)
NetOutcomes ==
  {[reachable |-> FALSE, amadeus |-> CHOOSE a \in AmadeusOutcomes : a.kind = "api_error"]}
  \cup {[reachable |-> TRUE, amadeus |-> a] : a \in AmadeusOutcomes}

\* Mutant of McpRequestBody: the payload has no returnDate.
McpRequestBodyNoReturnDate(params, id) ==
  JObj(<<Member(<<"messageId">>, JStr(<<"message", ToString(id)>>)),
         Member(<<"sessionId">>, JStr(<<"session", ToString(id)>>)),
         Member(<<"service">>, JStr(<<"flight_search">>)),
         Member(<<"action">>, JStr(<<"invoke">>)),
         Member(<<"payload">>,
           JObj(<<Member(<<"origin">>, Get(params, <<"origin">>)),
                  Member(<<"destination">>, Get(params, <<"destination">>)),
                  Member(<<"departDate">>, Get(params, <<"departDate">>)),
                  Member(<<"adults">>, Coalesce(Get(params, <<"adults">>), JNum(1))),
                  Member(<<"currency">>, Coalesce(Get(params, <<"currency">>), JStr(<<"USD">>))),
                  Member(<<"maxStopovers">>, Coalesce(Get(params, <<"maxStopovers">>), JNum(0)))>>))>>)

\* The body of the request to /mcp; id stands for the two fresh uuids.
McpRequestBody(params, id) ==
  JObj(<<Member(<<"messageId">>, JStr(<<"message", ToString(id)>>)),
         Member(<<"sessionId">>, JStr(<<"session", ToString(id)>>)),
         Member(<<"service">>, JStr(<<"flight_search">>)),
         Member(<<"action">>, JStr(<<"invoke">>)),
         Member(<<"payload">>,
           JObj(<<Member(<<"origin">>, Get(params, <<"origin">>)),
                  Member(<<"destination">>, Get(params, <<"destination">>)),
                  Member(<<"departDate">>, Get(params, <<"departDate">>)),
                  Member(<<"returnDate">>, Get(params, <<"returnDate">>)),
                  Member(<<"adults">>, Coalesce(Get(params, <<"adults">>), JNum(1))),
                  Member(<<"currency">>, Coalesce(Get(params, <<"currency">>), JStr(<<"USD">>))),
                  Member(<<"maxStopovers">>, Coalesce(Get(params, <<"maxStopovers">>), JNum(0)))>>))>>)

SearchThrew == [raised |-> TRUE, val |-> JUndefined]

\* Mutant of ReadMcpResponse: neither response.ok nor data.error is tested.
ReadMcpResponseBodyOnly(response) ==
  IF response.body.kind \notin {"obj", "arr"} THEN SearchThrew
  ELSE [raised |-> FALSE, val |-> Get(response.body, <<"result">>)]

\* What the client makes of the HTTP response: it throws on a non-2xx
\* status, on a body that is not an object and on a truthy error member,
\* and returns data.result otherwise.
ReadMcpResponse(response) ==
  IF ~(response.status \in 200..299) THEN SearchThrew
  ELSE IF response.body.kind \notin {"obj", "arr"} THEN SearchThrew
  ELSE IF Truthy(Get(response.body, <<"error">>)) THEN SearchThrew
  ELSE [raised |-> FALSE, val |-> Get(response.body, <<"result">>)]

searchFlightsViaMCP(params, id, net) ==
  IF ~net.reachable THEN SearchThrew
  ELSE ReadMcpResponse(McpHandler(WireJSON(McpRequestBody(params, id)), net.amadeus))

(***************************************************************************)
(* The POST /chat handler of api-gateway/src/index.ts, one instance per    *)
(* request.                                                                *)
(*                                                                         *)
(* pc               idle, the await the handler is suspended at (intent,   *)
(*                  search, summary, cards), or done                       *)
(* messages         request.body.messages (index.ts 136)                   *)
(* intentResponse   the text of the intent call (162)                      *)
(* parsed           JSON.parse(intentResponse) (172)                       *)
(* assistantMessage, flights, cards   the three locals of 166-168          *)
(* cardsResponse    the text of the cards call (210)                       *)
(* reply            the HTTP reply sent for the request                    *)
(* llmCalls, searchCalls   the calls of chat() and of searchFlightsViaMCP  *)
(*                  the request has made                                   *)
(* llmRaised        the chat() call of the request that rejected, if any   *)
(* searchOutcome    whether searchFlightsViaMCP raised or returned, and    *)
(*                  the value it returned                                  *)
(* trace            the outbound calls of the request and how each one     *)
(*                  settled, in the order they happened                    *)
(***************************************************************************)
VARIABLES pc, messages, intentResponse, parsed, assistantMessage, flights,
          cards, cardsResponse, reply, llmCalls, searchCalls, llmRaised,
          searchOutcome, trace

chatVars == <<pc, messages, intentResponse, parsed, assistantMessage, flights,
              cards, cardsResponse, reply, llmCalls, searchCalls, llmRaised,
              searchOutcome, trace>>

(***************************************************************************)
(* fn is the state of one call of a function that is checked on its own:   *)
(* its name, its argument, and once it has run its result.                 *)
(***************************************************************************)
VARIABLES fn

(***************************************************************************)
(* The token cache of mcp-flight-server/src/index.ts.                      *)
(*                                                                         *)
(* accessToken      the cached token: 0 for null, c for the token that the *)
(*                  OAuth request of call c obtained (19)                  *)
(* tokenExpiresAt   its expiry in ms (20)                                  *)
(* clock            Date.now()                                             *)
(* calls            the calls of getAccessToken: where each one is, the    *)
(*                  now it captured, the cache it saw, what it returned    *)
(***************************************************************************)
VARIABLES accessToken, tokenExpiresAt, clock, calls

tokenVars == <<accessToken, tokenExpiresAt, clock, calls>>

(***************************************************************************)
(* The POST /mcp handler of the flight server, one instance per request:   *)
(* mcp[q] holds where the handler is (idle, search while it awaits         *)
(* searchFlightsAmadeus, done), its mcpReq, its reply, and whether another *)
(* request was waiting when it replied.                                    *)
(***************************************************************************)
VARIABLES mcp

vars == <<chatVars, fn, tokenVars, mcp>>

\* An entry of trace: op is intent, search, summary or cards; ev is call,
\* return or raise; text is the text a chat() call returned.
Event(op, ev, text) == [op |-> op, ev |-> ev, text |-> text]
Called(op) == Event(op, "call", <<>>)
Threw(op) == Event(op, "raise", <<>>)
Gave(op, text) == Event(op, "return", text)

\* status is the HTTP status that goes with arg or with res, reachable
\* whether the flight server can be reached, wire what the flight server
\* receives.
\* What surrounds a call: what Amadeus does behind the flight server, and
\* the environment of the gateway process (LLM_PROVIDER, and whether
\* OPENAI_API_KEY and ANTHROPIC_API_KEY are set to a non-empty value).
NoEnv ==
  [amadeus |-> CHOOSE a \in AmadeusOutcomes : a.kind = "api_error",
   provider |-> JUndefined, openaiKey |-> FALSE, anthropicKey |-> FALSE]

FnCall(name, arg, status, reachable) ==
  [name |-> name, done |-> FALSE, arg |-> arg, status |-> status,
   reachable |-> reachable, raised |-> FALSE, res |-> JUndefined, wire |-> JUndefined,
   env |-> NoEnv]

FnCallIn(name, arg, reachable, env) ==
  [FnCall(name, arg, 0, reachable) EXCEPT !.env = env]

FnIdle == FnCall("none", JUndefined, 0, TRUE)

UserMessage ==
  JObj(<<Member(<<"role">>, JStr(<<"user">>)),
         Member(<<"content">>, JStr(<<"Find", "flights", "Seoul", "to", "New", "York">>))>>)

\* request.body.messages: missing, empty, or a conversation.
MessageLists == {JUndefined, JArr(<<>>), JArr(<<UserMessage>>)}

\* The three fixed Korean strings of the handler, each one token: the text of
\* the 400 reply (index.ts line 139), the no-results apology (line 226) and
\* the apology of the 500 reply (line 245).
EmptyRequestText == <<"(messages are required)">>
NoResultsMessage == <<"(sorry, no flights found for these conditions; adjust the dates or the destination?)">>
FailureMessage == <<"(sorry, an error occurred while processing the request)">>

NoReply == [sent |-> FALSE, status |-> 0, body |-> JUndefined]

\* Mutant of IsEmptyRequest: the length test is lost.
IsEmptyRequestNoLength(msgs) == ~Truthy(msgs)

\* !messages || messages.length === 0
IsEmptyRequest(msgs) == ~Truthy(msgs) \/ (msgs.kind = "arr" /\ Len(msgs.elems) = 0)

\* reply.code(400).send({ error: EmptyRequestText })
EmptyRequestReply ==
  [sent |-> TRUE, status |-> 400,
   body |-> JObj(<<Member(<<"error">>, JStr(EmptyRequestText))>>)]

\* Mutant of FailureReply: the status code is not set.
FailureReplyStatus200 ==
  [sent |-> TRUE, status |-> 200,
   body |-> JObj(<<Member(<<"message">>, JStr(FailureMessage)),
                   Member(<<"error">>, JBool(TRUE))>>)]

\* the outer catch: reply.code(500).send({ message, error: true })
FailureReply ==
  [sent |-> TRUE, status |-> 500,
   body |-> JObj(<<Member(<<"message">>, JStr(FailureMessage)),
                   Member(<<"error">>, JBool(TRUE))>>)]

\* Mutant of ChatResponse: the flights member is left out.
ChatResponseNoFlights(msg, fl, cd) ==
  [sent |-> TRUE, status |-> 200,
   body |-> JObj(<<Member(<<"message">>, JStr(msg)),
                   Member(<<"flights">>, JNull),
                   Member(<<"cards">>, cd)>>)]

\* Mutant of ChatResponse: an empty message is replaced by the apology.
ChatResponseDefaultMessage(msg, fl, cd) ==
  [sent |-> TRUE, status |-> 200,
   body |-> JObj(<<Member(<<"message">>, JStr(IF msg = <<>> THEN NoResultsMessage ELSE msg)),
                   Member(<<"flights">>, fl),
                   Member(<<"cards">>, cd)>>)]

\* const response: ChatResponse = { message, flights, cards }; return response
ChatResponse(msg, fl, cd) ==
  [sent |-> TRUE, status |-> 200,
   body |-> JObj(<<Member(<<"message">>, JStr(msg)),
                   Member(<<"flights">>, fl),
                   Member(<<"cards">>, cd)>>)]

\* Mutant of IsSearchIntent: any intent tag starts a search.
IsSearchIntentAnyTag(p) == Truthy(Get(p, <<"intent">>))

\* parsed?.intent === "search_flights"
IsSearchIntent(p) == Get(p, <<"intent">>) = JStr(<<"search_flights">>)

\* The argument of the searchFlightsViaMCP call.
SearchParams(p) ==
  JObj(<<Member(<<"origin">>, Get(p, <<"origin">>)),
         Member(<<"destination">>, Get(p, <<"destination">>)),
         Member(<<"departDate">>, Get(p, <<"departDate">>)),
         Member(<<"returnDate">>, Get(p, <<"returnDate">>)),
         Member(<<"round">>, JBool(Truthy(Get(p, <<"round">>)))),
         Member(<<"adults">>, OrElse(Get(p, <<"adults">>), JNum(1))),
         Member(<<"currency">>, OrElse(Get(p, <<"currency">>), JStr(<<"USD">>)))>>)

\* Mutant of HasOffers: the length test is lost.
HasOffersTruthyOnly(fl) == Truthy(fl)

\* flights && flights.items?.length > 0
HasOffers(fl) == Truthy(fl) /\ LengthPositive(Get(fl, <<"items">>))

\* Mutant of FallbackCards: the Weather card is missing.
FallbackCardsTwo(p) ==
  JArr(<<JObj(<<Member(<<"title">>, JStr(<<"Explore">>)),
                Member(<<"summary">>, JStr(<<"Discover">> \o ToStringJS(Get(p, <<"destination">>))))>>),
         JObj(<<Member(<<"title">>, JStr(<<"Local", "Tips">>)),
                Member(<<"summary">>, JStr(<<"Check", "local", "guides", "for", "recommendations">>))>>)>>)

\* The cards of the catch around JSON.parse(cardsResponse).
FallbackCards(p) ==
  JArr(<<JObj(<<Member(<<"title">>, JStr(<<"Explore">>)),
                Member(<<"summary">>, JStr(<<"Discover">> \o ToStringJS(Get(p, <<"destination">>))))>>),
         JObj(<<Member(<<"title">>, JStr(<<"Local", "Tips">>)),
                Member(<<"summary">>, JStr(<<"Check", "local", "guides", "for", "recommendations">>))>>),
         JObj(<<Member(<<"title">>, JStr(<<"Weather">>)),
                Member(<<"summary">>, JStr(<<"Check", "forecast", "before", "your", "trip">>))>>)>>)

\* Mutant of CardsFrom: a parsed value that is not an array of three is
\* replaced by the fallback too.
CardsFromThreeOnly(text, p) ==
  LET j == JSONParse(text) IN
  IF j.threw \/ j.val.kind # "arr" \/ Len(j.val.elems) # 3 THEN FallbackCards(p) ELSE j.val

\* try { cards = JSON.parse(cardsResponse) } catch { cards = [the three] }
CardsFrom(text, p) ==
  LET j == JSONParse(text) IN IF j.threw THEN FallbackCards(p) ELSE j.val

ChatInit ==
  /\ pc = [r \in Reqs |-> "idle"]
  /\ messages = [r \in Reqs |-> JUndefined]
  /\ intentResponse = [r \in Reqs |-> <<>>]
  /\ parsed = [r \in Reqs |-> JUndefined]
  /\ assistantMessage = [r \in Reqs |-> <<>>]
  /\ flights = [r \in Reqs |-> JNull]
  /\ cards = [r \in Reqs |-> JArr(<<>>)]
  /\ cardsResponse = [r \in Reqs |-> <<>>]
  /\ reply = [r \in Reqs |-> NoReply]
  /\ llmCalls = [r \in Reqs |-> 0]
  /\ searchCalls = [r \in Reqs |-> 0]
  /\ llmRaised = [r \in Reqs |-> "none"]
  /\ searchOutcome = [r \in Reqs |-> [state |-> "none", val |-> JUndefined]]
  /\ trace = [r \in Reqs |-> <<>>]

CallIds == 1..MaxCalls

\* The step of the clock, in ms.
Tick == 10 * 1000

\* The expires_in values, in seconds, that the OAuth server answers with.
Lifetimes == {50, 70, 80}

NoCall ==
  [st |-> "idle", now |-> 0, seenToken |-> 0, seenExpiry |-> 0, known |-> {},
   cached |-> FALSE, ret |-> 0, life |-> 0]

TokenInit ==
  /\ accessToken = 0
  /\ tokenExpiresAt = 0
  /\ clock = Tick
  /\ calls = [c \in CallIds |-> NoCall]

McpIds == 1..MaxMcp

NoMcp ==
  [pc |-> "idle", mcpReq |-> JUndefined, reply |-> [status |-> 0, body |-> JUndefined],
   overlapped |-> FALSE]

McpInit == mcp = [q \in McpIds |-> NoMcp]

Init == ChatInit /\ fn = FnIdle /\ TokenInit /\ McpInit

\* The request arrives: the message check and, past it, the call of chat()
\* for the intent.
Receive(r, msgs) ==
  /\ pc[r] = "idle"
  /\ messages' = [messages EXCEPT ![r] = msgs]
  /\ IF IsEmptyRequest(msgs)
     THEN /\ reply' = [reply EXCEPT ![r] = EmptyRequestReply]
          /\ pc' = [pc EXCEPT ![r] = "done"]
          /\ UNCHANGED <<llmCalls, trace>>
     ELSE /\ pc' = [pc EXCEPT ![r] = "intent"]
          /\ llmCalls' = [llmCalls EXCEPT ![r] = @ + 1]
          /\ trace' = [trace EXCEPT ![r] = Append(@, Called("intent"))]
          /\ UNCHANGED reply
  /\ UNCHANGED <<intentResponse, parsed, assistantMessage, flights, cards,
                 cardsResponse, searchCalls, llmRaised, searchOutcome, fn, tokenVars, mcp>>

\* chat() for the intent settles: Step 1 and the head of Step 2.
IntentSettles(r, up) ==
  /\ pc[r] = "intent"
  /\ LET res == Chat(up)
         j == JSONParse(res.text)
     IN
     IF res.raised
     THEN /\ llmRaised' = [llmRaised EXCEPT ![r] = "intent"]
          /\ reply' = [reply EXCEPT ![r] = FailureReply]
          /\ pc' = [pc EXCEPT ![r] = "done"]
          /\ trace' = [trace EXCEPT ![r] = Append(@, Threw("intent"))]
          /\ UNCHANGED <<intentResponse, parsed, assistantMessage, flights, cards, searchCalls>>
     ELSE /\ intentResponse' = [intentResponse EXCEPT ![r] = res.text]
          /\ assistantMessage' = [assistantMessage EXCEPT ![r] = res.text]
          /\ flights' = [flights EXCEPT ![r] = JNull]
          /\ cards' = [cards EXCEPT ![r] = JArr(<<>>)]
          /\ UNCHANGED llmRaised
          /\ IF ~j.threw /\ IsSearchIntent(j.val)
             THEN /\ parsed' = [parsed EXCEPT ![r] = j.val]
                  /\ searchCalls' = [searchCalls EXCEPT ![r] = @ + 1]
                  /\ pc' = [pc EXCEPT ![r] = "search"]
                  /\ trace' = [trace EXCEPT ![r] = @ \o <<Gave("intent", res.text), Called("search")>>]
                  /\ UNCHANGED reply
             ELSE /\ parsed' = [parsed EXCEPT ![r] = j.val]
                  /\ reply' = [reply EXCEPT ![r] = ChatResponse(res.text, JNull, JArr(<<>>))]
                  /\ pc' = [pc EXCEPT ![r] = "done"]
                  /\ trace' = [trace EXCEPT ![r] = Append(@, Gave("intent", res.text))]
                  /\ UNCHANGED searchCalls
  /\ UNCHANGED <<messages, cardsResponse, llmCalls, searchOutcome, fn, tokenVars, mcp>>

\* searchFlightsViaMCP settles: a throw lands in the inner catch, which
\* only logs, and the handler goes on to build the response.
SearchSettles(r, net) ==
  /\ pc[r] = "search"
  /\ LET res == searchFlightsViaMCP(SearchParams(parsed[r]), r, net) IN
     IF res.raised
     THEN /\ searchOutcome' = [searchOutcome EXCEPT ![r] = [state |-> "raised", val |-> JUndefined]]
          /\ reply' = [reply EXCEPT ![r] = ChatResponse(assistantMessage[r], flights[r], cards[r])]
          /\ pc' = [pc EXCEPT ![r] = "done"]
          /\ trace' = [trace EXCEPT ![r] = Append(@, Threw("search"))]
          /\ UNCHANGED <<flights, assistantMessage, llmCalls>>
     ELSE /\ searchOutcome' = [searchOutcome EXCEPT ![r] = [state |-> "returned", val |-> res.val]]
          /\ flights' = [flights EXCEPT ![r] = res.val]
          /\ IF HasOffers(res.val)
             THEN /\ llmCalls' = [llmCalls EXCEPT ![r] = @ + 1]
                  /\ pc' = [pc EXCEPT ![r] = "summary"]
                  /\ trace' = [trace EXCEPT ![r] = @ \o <<Gave("search", <<>>), Called("summary")>>]
                  /\ UNCHANGED <<assistantMessage, reply>>
             ELSE /\ assistantMessage' = [assistantMessage EXCEPT ![r] = NoResultsMessage]
                  /\ reply' = [reply EXCEPT ![r] = ChatResponse(NoResultsMessage, res.val, cards[r])]
                  /\ pc' = [pc EXCEPT ![r] = "done"]
                  /\ trace' = [trace EXCEPT ![r] = Append(@, Gave("search", <<>>))]
                  /\ UNCHANGED llmCalls
  /\ UNCHANGED <<messages, intentResponse, parsed, cards, cardsResponse, searchCalls,
                 llmRaised, fn, tokenVars, mcp>>

\* chat() for the summary settles; on success chat() for the cards is called.
SummarySettles(r, up) ==
  /\ pc[r] = "summary"
  /\ LET res == Chat(up) IN
     IF res.raised
     THEN /\ llmRaised' = [llmRaised EXCEPT ![r] = "summary"]
          /\ reply' = [reply EXCEPT ![r] = ChatResponse(assistantMessage[r], flights[r], cards[r])]
          /\ pc' = [pc EXCEPT ![r] = "done"]
          /\ trace' = [trace EXCEPT ![r] = Append(@, Threw("summary"))]
          /\ UNCHANGED <<assistantMessage, llmCalls>>
     ELSE /\ assistantMessage' = [assistantMessage EXCEPT ![r] = res.text]
          /\ llmCalls' = [llmCalls EXCEPT ![r] = @ + 1]
          /\ pc' = [pc EXCEPT ![r] = "cards"]
          /\ trace' = [trace EXCEPT ![r] = @ \o <<Gave("summary", res.text), Called("cards")>>]
          /\ UNCHANGED <<llmRaised, reply>>
  /\ UNCHANGED <<messages, intentResponse, parsed, flights, cards, cardsResponse,
                 searchCalls, searchOutcome, fn, tokenVars, mcp>>

\* Mutant of CardsSettles: assistantMessage is read as if it were declared
\* outside the handler, one variable for all requests.
CardsSettlesSharedMessage(r, up) ==
  /\ pc[r] = "cards"
  /\ LET res == Chat(up)
         shared == assistantMessage[CHOOSE q \in Reqs : \A o \in Reqs : q <= o]
     IN
     IF res.raised
     THEN /\ llmRaised' = [llmRaised EXCEPT ![r] = "cards"]
          /\ reply' = [reply EXCEPT ![r] = ChatResponse(shared, flights[r], cards[r])]
          /\ trace' = [trace EXCEPT ![r] = Append(@, Threw("cards"))]
          /\ UNCHANGED <<cards, cardsResponse>>
     ELSE /\ cardsResponse' = [cardsResponse EXCEPT ![r] = res.text]
          /\ cards' = [cards EXCEPT ![r] = CardsFrom(res.text, parsed[r])]
          /\ reply' = [reply EXCEPT ![r] =
                         ChatResponse(shared, flights[r], CardsFrom(res.text, parsed[r]))]
          /\ trace' = [trace EXCEPT ![r] = Append(@, Gave("cards", res.text))]
          /\ UNCHANGED llmRaised
  /\ pc' = [pc EXCEPT ![r] = "done"]
  /\ UNCHANGED <<messages, intentResponse, parsed, assistantMessage, flights,
                 llmCalls, searchCalls, searchOutcome, fn, tokenVars, mcp>>

\* chat() for the cards settles: Step 4 and the response.
CardsSettles(r, up) ==
  /\ pc[r] = "cards"
  /\ LET res == Chat(up) IN
     IF res.raised
     THEN /\ llmRaised' = [llmRaised EXCEPT ![r] = "cards"]
          /\ reply' = [reply EXCEPT ![r] = ChatResponse(assistantMessage[r], flights[r], cards[r])]
          /\ trace' = [trace EXCEPT ![r] = Append(@, Threw("cards"))]
          /\ UNCHANGED <<cards, cardsResponse>>
     ELSE /\ cardsResponse' = [cardsResponse EXCEPT ![r] = res.text]
          /\ cards' = [cards EXCEPT ![r] = CardsFrom(res.text, parsed[r])]
          /\ reply' = [reply EXCEPT ![r] =
                         ChatResponse(assistantMessage[r], flights[r], CardsFrom(res.text, parsed[r]))]
          /\ trace' = [trace EXCEPT ![r] = Append(@, Gave("cards", res.text))]
          /\ UNCHANGED llmRaised
  /\ pc' = [pc EXCEPT ![r] = "done"]
  /\ UNCHANGED <<messages, intentResponse, parsed, assistantMessage, flights,
                 llmCalls, searchCalls, searchOutcome, fn, tokenVars, mcp>>

Next ==
  \/ \E r \in Reqs, msgs \in MessageLists : Receive(r, msgs)
  \/ \E r \in Reqs, up \in Upstreams(IntentTexts) : IntentSettles(r, up)
  \/ \E r \in Reqs, net \in NetOutcomes : SearchSettles(r, net)
  \/ \E r \in Reqs, up \in Upstreams(SummaryTexts) : SummarySettles(r, up)
  \/ \E r \in Reqs, up \in Upstreams(CardsTexts) : CardsSettles(r, up)

Spec == Init /\ [][Next]_vars

(***************************************************************************)
(* The routes of the flight server (mcp-flight-server/src/index.ts) and    *)
(* the GET /locations handler of the gateway with lookupLocationsViaMCP.   *)
(***************************************************************************)
FlightServerRoutes ==
  {<<"POST", "/mcp">>, <<"POST", "/api/search-flights">>, <<"GET", "/health">>}

\* The answer of the flight server to GET path: the health reply, or the
\* 404 reply of the framework for a path that has no route.
FlightServerGet(path) ==
  IF <<"GET", path>> \in FlightServerRoutes
  THEN HttpResponse(200,
         JObj(<<Member(<<"status">>, JStr(<<"ok">>)),
                Member(<<"service">>, JStr(<<"mcp-flight-server">>)),
                Member(<<"timestamp">>, JStr(<<"(now)">>)),
                Member(<<"clientIdConfigured">>, JBool(TRUE))>>))
  ELSE HttpResponse(404,
         JObj(<<Member(<<"message">>, JStr(<<"Route", "GET", path, "not", "found">>)),
                Member(<<"error">>, JStr(<<"Not", "Found">>)),
                Member(<<"statusCode">>, JNum(404))>>))

\* lookupLocationsViaMCP(params): the body of the answer to GET
\* /api/locations, or it throws with a message.
lookupLocationsViaMCP(params, reachable) ==
  IF ~reachable
  THEN [raised |-> TRUE, val |-> JUndefined, message |-> <<"fetch", "failed">>]
  ELSE LET response == FlightServerGet("/api/locations") IN
    IF ~(response.status \in 200..299)
    THEN [raised |-> TRUE, val |-> JUndefined,
          message |-> IF response.body.kind \in {"obj", "arr"}
                         /\ Get(response.body, <<"message">>).kind = "str"
                      THEN Get(response.body, <<"message">>).s
                      ELSE <<"HTTP", ToString(response.status)>>]
    ELSE IF ~Truthy(response.body) \/ response.body.kind \notin {"obj", "arr"}
    THEN [raised |-> TRUE, val |-> JUndefined, message |-> <<"(unexpected answer of the server)">>]
    ELSE [raised |-> FALSE, val |-> response.body, message |-> <<>>]

\* The error text of the 500 reply of GET /locations (index.ts line 86).
LocationsErrorText == <<"(an error occurred during the location search)">>

\* fastify.get("/locations"): query is request.query; the reply.
LocationsHandler(query, reachable) ==
  LET term == IF Get(query, <<"term">>).kind = "undefined"
              THEN JStr(<<"Seoul">>) ELSE Get(query, <<"term">>)
      limit == IF Get(query, <<"limit">>).kind = "undefined"
               THEN JStr(<<"5">>) ELSE Get(query, <<"limit">>)
      params == JObj(<<Member(<<"term">>, term), Member(<<"limit">>, ToNumberJS(limit.s))>>)
      result == lookupLocationsViaMCP(params, reachable)
  IN IF result.raised
     THEN [sent |-> TRUE, status |-> 500,
           body |-> JObj(<<Member(<<"error">>, JStr(LocationsErrorText))>>)]
     ELSE [sent |-> TRUE, status |-> 200,
           body |-> OrElse(result.val, JObj(<<Member(<<"locations">>, JArr(<<>>))>>))]

(***************************************************************************)
(* Single calls: SearchParams with the request body built from it, the     *)
(* response handling of searchFlightsViaMCP, and GET /locations.           *)
(***************************************************************************)
OptMember(key, v) == IF v.kind = "undefined" THEN <<>> ELSE <<Member(key, v)>>

\* A parsed search intent; an argument of undefined leaves the member out.
IntentObject(ret, rnd, ad, cur) ==
  JObj(<<Member(<<"intent">>, JStr(<<"search_flights">>)),
         Member(<<"origin">>, JStr(<<"ICN">>)),
         Member(<<"destination">>, JStr(<<"JFK">>)),
         Member(<<"departDate">>, JStr(<<"2025-03-17">>))>>
       \o OptMember(<<"returnDate">>, ret) \o OptMember(<<"round">>, rnd)
       \o OptMember(<<"adults">>, ad) \o OptMember(<<"currency">>, cur))

IntentObjects ==
  {IntentObject(ret, rnd, ad, cur) :
     ret \in {JUndefined, JStr(<<"2025-03-24">>)},
     rnd \in {JUndefined, JBool(TRUE), JBool(FALSE)},
     ad \in {JUndefined, JNum(0), JNum(2)},
     cur \in {JUndefined, JStr(<<>>), JStr(<<"KRW">>)}}

SearchResult(n) ==
  JObj(<<Member(<<"currency">>, JStr(<<"USD">>)), Member(<<"items">>, JArr(Offers(n)))>>)

McpReplyWith(result) ==
  JObj(<<Member(<<"messageId">>, JStr(<<"message", "1">>)),
         Member(<<"sessionId">>, JStr(<<"session", "1">>)),
         Member(<<"service">>, JStr(<<"flight_search">>)),
         Member(<<"action">>, JStr(<<"result">>)),
         Member(<<"result">>, result)>>)

McpFailure ==
  JObj(<<Member(<<"code">>, JStr(<<"SEARCH_FAILED">>)),
         Member(<<"message">>, JStr(<<"api_error">>))>>)

\* Bodies an HTTP answer to POST /mcp can have: not JSON, JSON that is no
\* object, objects with and without a result of the form {currency, items},
\* and the two error bodies of the flight server.
McpBodies ==
  { JUndefined, JNull, JStr(<<"ok">>), JNum(1), JArr(<<>>), JObj(<<>>),
    McpReplyWith(SearchResult(0)), McpReplyWith(SearchResult(1)),
    McpReplyWith(JObj(<<>>)), McpReplyWith(JNull),
    McpReplyWith(JObj(<<Member(<<"currency">>, JStr(<<"USD">>))>>)),
    McpReplyWith(JObj(<<Member(<<"items">>, JStr(<<"none">>))>>)),
    JObj(McpReplyWith(JObj(<<>>)).fields \o <<Member(<<"error">>, McpFailure)>>),
    JObj(McpReplyWith(SearchResult(1)).fields \o <<Member(<<"error">>, JNull)>>),
    JObj(<<Member(<<"error">>, JStr(<<"Unsupported", "MCP", "service", "or", "action">>))>>) }

HttpStatuses == {200, 201, 400, 500}

LocationQueries ==
  {JObj(OptMember(<<"term">>, t) \o OptMember(<<"limit">>, l)) :
     t \in {JUndefined, JStr(<<"Seoul">>), JStr(<<"New", "York">>)},
     l \in {JUndefined, JStr(<<"2">>), JStr(<<"abc">>)}}

(***************************************************************************)
(* llm.ts: PROVIDER, the two clients, validateLLMConfig and the provider   *)
(* that chat() selects.                                                    *)
(***************************************************************************)
\* toLowerCase() on the values LLM_PROVIDER is given here.
ToLowerCase(str) ==
  [i \in 1..Len(str) |->
     CASE str[i] = "OpenAI" -> "openai"
       [] str[i] = "ANTHROPIC" -> "anthropic"
       [] OTHER -> str[i]]

\* const PROVIDER = (process.env.LLM_PROVIDER || "openai").toLowerCase()
PROVIDER(env) == ToLowerCase(OrElse(env.provider, JStr(<<"openai">>)).s)

\* validateLLMConfig(): TRUE when it throws.
validateLLMConfig(env) ==
  \/ PROVIDER(env) = <<"anthropic">> /\ ~env.anthropicKey
  \/ PROVIDER(env) = <<"openai">> /\ ~env.openaiKey

\* The branch chat() takes: a client, or "none" for the throw of line 71.
SelectedProvider(env) ==
  IF PROVIDER(env) = <<"anthropic">> /\ env.anthropicKey THEN "anthropic"
  ELSE IF env.openaiKey THEN "openai"
  ELSE "none"

ProviderValues ==
  {JUndefined, JStr(<<>>), JStr(<<"openai">>), JStr(<<"OpenAI">>),
   JStr(<<"anthropic">>), JStr(<<"ANTHROPIC">>), JStr(<<"gemini">>)}

LLMEnvs ==
  {[NoEnv EXCEPT !.provider = p, !.openaiKey = o, !.anthropicKey = a] :
     p \in ProviderValues, o \in BOOLEAN, a \in BOOLEAN}

(***************************************************************************)
(* POST /search-flights of the gateway. The strings of its bodies are      *)
(* sequences of characters.                                                *)
(***************************************************************************)
Digits == {"0", "1", "2", "3", "4", "5", "6", "7", "8", "9"}

\* /\d{4}-\d{2}-\d{2}/.test(str): the pattern is not anchored.
MatchesDate(str) ==
  \E i \in 0..(Len(str) - 10) :
    /\ \A d \in {1, 2, 3, 4, 6, 7, 9, 10} : str[i + d] \in Digits
    /\ str[i + 5] = "-" /\ str[i + 8] = "-"

\* z.string().min(lo).max(hi)
ZStringMinMax(v, lo, hi) == v.kind = "str" /\ Len(v.s) >= lo /\ Len(v.s) <= hi

\* z.string().regex(/\d{4}-\d{2}-\d{2}/)
ZDate(v) == v.kind = "str" /\ MatchesDate(v.s)

\* Mutant of ZIntMinMax: the upper limit is not tested.
ZIntMin(v, lo, hi) == v.kind = "num" /\ v.n >= lo

\* z.number().int().min(lo).max(hi)
ZIntMinMax(v, lo, hi) == v.kind = "num" /\ v.n >= lo /\ v.n <= hi

\* schema.parse(request.body) does not throw.
SchemaAccepts(body) ==
  /\ body.kind = "obj"
  /\ ZStringMinMax(Get(body, <<"origin">>), 3, 10)
  /\ ZStringMinMax(Get(body, <<"destination">>), 3, 10)
  /\ ZDate(Get(body, <<"departDate">>))
  /\ Get(body, <<"returnDate">>).kind = "undefined" \/ ZDate(Get(body, <<"returnDate">>))
  /\ Get(body, <<"round">>).kind \in {"undefined", "bool"}
  /\ Get(body, <<"adults">>).kind = "undefined" \/ ZIntMinMax(Get(body, <<"adults">>), 1, 9)
  /\ Get(body, <<"currency">>).kind \in {"undefined", "str"}
  /\ Get(body, <<"maxStopovers">>).kind = "undefined"
       \/ ZIntMinMax(Get(body, <<"maxStopovers">>), 0, 2)

SchemaKeys ==
  <<<<"origin">>, <<"destination">>, <<"departDate">>, <<"returnDate">>, <<"round">>,
    <<"adults">>, <<"currency">>, <<"maxStopovers">>>>

\* The value of schema.parse: the members of the schema that the body has.
SchemaValue(body) ==
  LET RECURSIVE Pick(_)
      Pick(i) == IF i > Len(SchemaKeys) THEN <<>>
                 ELSE OptMember(SchemaKeys[i], Get(body, SchemaKeys[i])) \o Pick(i + 1)
  IN JObj(Pick(1))

\* The error texts of the replies (index.ts 115, 121, 125).
BadRequestText == <<"(bad request)">>
NoFlightsText == <<"(no flights found)">>
SearchErrorText == <<"(an error occurred during the flight search)">>

\* fastify.post("/search-flights"): the reply, and in sent the body of the
\* request made to the flight server, undefined when none is made.
SearchFlightsHandler(body, net) ==
  IF ~SchemaAccepts(body)
  THEN [status |-> 400, sent |-> JUndefined,
        body |-> JObj(<<Member(<<"error">>, JStr(BadRequestText)),
                        Member(<<"details">>, JArr(<<JStr(<<"issue">>)>>))>>)]
  ELSE LET params == SchemaValue(body)
           result == searchFlightsViaMCP(params, 1, net)
           sent == WireJSON(McpRequestBody(params, 1))
       IN IF result.raised
          THEN [status |-> 500, sent |-> sent,
                body |-> JObj(<<Member(<<"error">>, JStr(SearchErrorText))>>)]
          ELSE IF ~Truthy(result.val)
          THEN [status |-> 404, sent |-> sent,
                body |-> JObj(<<Member(<<"error">>, JStr(NoFlightsText))>>)]
          ELSE [status |-> 200, sent |-> sent, body |-> result.val]

Chars3 == <<"I", "C", "N">>
Chars10 == <<"2", "0", "2", "5", "-", "0", "3", "-", "1", "7">>

SearchBody(o, d, dep, ad, st) ==
  JObj(OptMember(<<"origin">>, o) \o OptMember(<<"destination">>, d)
       \o OptMember(<<"departDate">>, dep) \o OptMember(<<"adults">>, ad)
       \o OptMember(<<"maxStopovers">>, st))

SearchBodies ==
  {JUndefined, JNull, JStr(Chars3)}
  \cup {SearchBody(o, d, dep, ad, st) :
          o \in {JUndefined, JNum(1), JStr(<<"I", "C">>), JStr(Chars3),
                 JStr(Chars10), JStr(Chars10 \o <<"0">>)},
          d \in {JUndefined, JStr(<<"J", "F">>), JStr(<<"J", "F", "K">>)},
          dep \in {JUndefined, JStr(Chars10), JStr(<<"s", "o", "o", "n">>),
                   JStr(<<"x">> \o Chars10)},
          ad \in {JUndefined, JNull, JNum(0), JNum(1), JNum(9), JNum(10)},
          st \in {JUndefined, JNum(-1), JNum(0), JNum(2), JNum(3)}}

SearchNets ==
  {n \in NetOutcomes : ~n.reachable \/ n.amadeus.kind = "api_error"
                         \/ (n.amadeus.hasData /\ n.amadeus.n = 1)}

\* The parameter sets of the searches made in the MCP calls.
McpParams ==
  {SearchParams(IntentObject(JUndefined, JUndefined, ad, cur)) :
     ad \in {JUndefined, JNum(2)}, cur \in {JUndefined, JStr(<<"KRW">>)}}

FnCalls ==
  {FnCall("params", p, 0, TRUE) : p \in IntentObjects}
  \cup {FnCall("client", b, st, TRUE) : b \in McpBodies, st \in HttpStatuses}
  \cup {FnCall("locations", q, 0, rch) : q \in LocationQueries, rch \in BOOLEAN}
  \cup {FnCallIn("mcp", p, TRUE, [NoEnv EXCEPT !.amadeus = a]) :
          p \in McpParams, a \in AmadeusOutcomes}
  \cup {FnCallIn("config", JUndefined, TRUE, e) : e \in LLMEnvs}
  \cup {FnCallIn("search-flights", b, n.reachable, [NoEnv EXCEPT !.amadeus = n.amadeus]) :
          b \in SearchBodies, n \in SearchNets}

InitFn == ChatInit /\ fn \in FnCalls /\ TokenInit /\ McpInit

\* The handler hands SearchParams(parsed) to searchFlightsViaMCP, which
\* puts it into the request body that the flight server receives.
RunParams ==
  /\ fn.name = "params" /\ ~fn.done
  /\ fn' = [fn EXCEPT !.done = TRUE,
                      !.res = SearchParams(fn.arg),
                      !.wire = Get(WireJSON(McpRequestBody(SearchParams(fn.arg), 1)), <<"payload">>)]
  /\ UNCHANGED <<chatVars, tokenVars, mcp>>

\* searchFlightsViaMCP reads an answer with status fn.status and body fn.arg.
RunClient ==
  /\ fn.name = "client" /\ ~fn.done
  /\ LET out == ReadMcpResponse(HttpResponse(fn.status, fn.arg)) IN
     fn' = [fn EXCEPT !.done = TRUE, !.raised = out.raised, !.res = out.val]
  /\ UNCHANGED <<chatVars, tokenVars, mcp>>

\* GET /locations with the query fn.arg.
RunLocations ==
  /\ fn.name = "locations" /\ ~fn.done
  /\ LET out == LocationsHandler(fn.arg, fn.reachable) IN
     fn' = [fn EXCEPT !.done = TRUE, !.status = out.status, !.res = out.body]
  /\ UNCHANGED <<chatVars, tokenVars, mcp>>

\* searchFlightsViaMCP against the /mcp handler of the flight server, with
\* the reply of the server kept in wire.
RunMcp ==
  /\ fn.name = "mcp" /\ ~fn.done
  /\ LET response == McpHandler(WireJSON(McpRequestBody(fn.arg, 1)), fn.env.amadeus)
         out == ReadMcpResponse(response)
     IN fn' = [fn EXCEPT !.done = TRUE, !.status = response.status, !.wire = response.body,
                         !.raised = out.raised, !.res = out.val]
  /\ UNCHANGED <<chatVars, tokenVars, mcp>>

\* The gateway starts (validateLLMConfig) and, if it does, chat() is called.
RunConfig ==
  /\ fn.name = "config" /\ ~fn.done
  /\ fn' = [fn EXCEPT !.done = TRUE, !.raised = validateLLMConfig(fn.env),
                      !.res = JStr(<<SelectedProvider(fn.env)>>)]
  /\ UNCHANGED <<chatVars, tokenVars, mcp>>

\* POST /search-flights with the body fn.arg.
RunSearchFlights ==
  /\ fn.name = "search-flights" /\ ~fn.done
  /\ LET out == SearchFlightsHandler(fn.arg, [reachable |-> fn.reachable,
                                              amadeus |-> fn.env.amadeus])
     IN fn' = [fn EXCEPT !.done = TRUE, !.status = out.status, !.res = out.body,
                         !.wire = out.sent]
  /\ UNCHANGED <<chatVars, tokenVars, mcp>>

NextFn ==
  RunParams \/ RunClient \/ RunLocations \/ RunMcp \/ RunConfig \/ RunSearchFlights

SpecFn == InitFn /\ [][NextFn]_vars

(***************************************************************************)
(* getAccessToken of the flight server. A call reads the cache when it     *)
(* starts; if it does not return the cached token it awaits the OAuth      *)
(* request and assigns the cache when the answer arrives, so calls that    *)
(* start while another one is waiting overlap.                             *)
(***************************************************************************)
\* The tokens obtained so far.
Obtained == {k \in CallIds : calls[k].st = "done" /\ ~calls[k].cached}

\* Mutant of TokenExpiry: the expiry without the margin of 60 seconds.
TokenExpiryNoMargin(now, expires_in) == now + expires_in * 1000

\* tokenExpiresAt = now + (json.expires_in - 60) * 1000
TokenExpiry(now, expires_in) == now + (expires_in - 60) * 1000

\* accessToken && now < tokenExpiresAt
CacheValid(now) == accessToken # 0 /\ now < tokenExpiresAt

TickClock ==
  /\ clock < Tick * (1 + MaxTicks)
  /\ clock' = clock + Tick
  /\ UNCHANGED <<accessToken, tokenExpiresAt, calls, chatVars, fn, mcp>>

\* getAccessToken up to its return of the cached token or its await.
Begin(c) ==
  /\ calls[c].st = "idle"
  /\ \A d \in CallIds : d < c => calls[d].st # "idle"
  /\ LET seen == [calls[c] EXCEPT !.now = clock, !.seenToken = accessToken,
                                  !.seenExpiry = tokenExpiresAt, !.known = Obtained]
     IN calls' = [calls EXCEPT ![c] =
          IF CacheValid(clock)
          THEN [seen EXCEPT !.st = "done", !.cached = TRUE, !.ret = accessToken]
          ELSE [seen EXCEPT !.st = "fetching"]]
  /\ UNCHANGED <<accessToken, tokenExpiresAt, clock, chatVars, fn, mcp>>

\* Mutant of FetchOk: the later of the old and the new expiry is kept.
FetchOkKeepsLaterExpiry(c, expires_in) ==
  /\ calls[c].st = "fetching"
  /\ accessToken' = c
  /\ tokenExpiresAt' = IF tokenExpiresAt > TokenExpiry(calls[c].now, expires_in)
                       THEN tokenExpiresAt ELSE TokenExpiry(calls[c].now, expires_in)
  /\ calls' = [calls EXCEPT ![c] = [@ EXCEPT !.st = "done", !.ret = c, !.life = expires_in]]
  /\ UNCHANGED <<clock, chatVars, fn, mcp>>

\* The OAuth request of call c is answered with a token and expires_in.
FetchOk(c, expires_in) ==
  /\ calls[c].st = "fetching"
  /\ accessToken' = c
  /\ tokenExpiresAt' = TokenExpiry(calls[c].now, expires_in)
  /\ calls' = [calls EXCEPT ![c] = [@ EXCEPT !.st = "done", !.ret = c, !.life = expires_in]]
  /\ UNCHANGED <<clock, chatVars, fn, mcp>>

\* The OAuth request of call c is answered with a non-success: the call throws.
FetchFails(c) ==
  /\ calls[c].st = "fetching"
  /\ calls' = [calls EXCEPT ![c] = [@ EXCEPT !.st = "failed"]]
  /\ UNCHANGED <<accessToken, tokenExpiresAt, clock, chatVars, fn, mcp>>

NextToken ==
  \/ TickClock
  \/ \E c \in CallIds : Begin(c)
  \/ \E c \in CallIds, e \in Lifetimes : FetchOk(c, e)
  \/ \E c \in CallIds : FetchFails(c)

SpecToken == Init /\ [][NextToken]_vars

(***************************************************************************)
(* Concurrent requests to POST /mcp of the flight server.                  *)
(***************************************************************************)
\* mcpReq?.service === "flight_search" && mcpReq?.action === "invoke"
IsInvoke(mcpReq) ==
  /\ Get(mcpReq, <<"service">>) = JStr(<<"flight_search">>)
  /\ Get(mcpReq, <<"action">>) = JStr(<<"invoke">>)

\* The request bodies: those searchFlightsViaMCP sends, one with a session
\* id of its own, one without ids, and one for another service.
McpRequests ==
  LET p == SearchParams(IntentObject(JUndefined, JUndefined, JUndefined, JUndefined)) IN
  {McpRequestBody(p, 1), McpRequestBody(p, 2),
   JObj(SetField(McpRequestBody(p, 1).fields, <<"sessionId">>, JStr(<<"session", "9">>))),
   JObj(<<Member(<<"service">>, JStr(<<"flight_search">>)),
          Member(<<"action">>, JStr(<<"invoke">>)),
          Member(<<"payload">>, p)>>),
   JObj(SetField(McpRequestBody(p, 2).fields, <<"service">>, JStr(<<"hotel_search">>)))}

\* A request arrives: the handler replies 400 at once, or calls
\* searchFlightsAmadeus and waits.
McpReceive(q, body) ==
  /\ mcp[q].pc = "idle"
  /\ LET mcpReq == WireJSON(body) IN
     mcp' = [mcp EXCEPT ![q] =
       IF IsInvoke(mcpReq)
       THEN [@ EXCEPT !.pc = "search", !.mcpReq = mcpReq]
       ELSE [@ EXCEPT !.pc = "done", !.mcpReq = mcpReq,
                      !.reply = McpHandler(mcpReq, NoEnv.amadeus)]]
  /\ UNCHANGED <<chatVars, fn, tokenVars>>

\* searchFlightsAmadeus settles and the handler replies.
McpSettles(q, amadeus) ==
  /\ mcp[q].pc = "search"
  /\ mcp' = [mcp EXCEPT ![q] =
       [@ EXCEPT !.pc = "done", !.reply = McpHandler(mcp[q].mcpReq, amadeus),
                 !.overlapped = \E o \in McpIds \ {q} : mcp[o].pc = "search"]]
  /\ UNCHANGED <<chatVars, fn, tokenVars>>

NextMcp ==
  \/ \E q \in McpIds, body \in McpRequests : McpReceive(q, body)
  \/ \E q \in McpIds, a \in AmadeusOutcomes : McpSettles(q, a)

SpecMcp == Init /\ [][NextMcp]_vars

(***************************************************************************)
(* Properties of the /chat pipeline.                                       *)
(***************************************************************************)
Body(r) == reply[r].body
Answered(r) == pc[r] = "done" /\ reply[r].sent
IsChatResponse(r) == Answered(r) /\ reply[r].status = 200
NonEmptyRequest(r) ==
  pc[r] # "idle" /\ messages[r].kind = "arr" /\ Len(messages[r].elems) > 0
\* chat() for the intent has returned a text.
IntentReturned(r) ==
  NonEmptyRequest(r) /\ pc[r] # "intent" /\ llmRaised[r] # "intent"
SearchRaised(r) == searchOutcome[r].state = "raised"
SearchReturned(r) == searchOutcome[r].state = "returned"
OfferCount(r) == Len(Get(searchOutcome[r].val, <<"items">>).elems)
\* chat() for the cards has returned a text.
CardsReturned(r) ==
  Answered(r) /\ SearchReturned(r) /\ llmCalls[r] = 3 /\ llmRaised[r] = "none"

\* C1: when searchFlightsViaMCP raises, the request ends in the HTTP 500
\* failure reply and never in a successful ChatResponse.
C1_SearchFailureIsPipelineFailure ==
  \A r \in Reqs : (pc[r] = "done" /\ SearchRaised(r)) => reply[r] = FailureReply

\* C2: when the summarizer or the card LLM call raises after a search with
\* at least one offer, the caller gets the failure reply and no ChatResponse.
C2_LaterLLMFailureAborts ==
  \A r \in Reqs :
    (pc[r] = "done" /\ llmRaised[r] \in {"summary", "cards"}) => reply[r] = FailureReply

\* C3: when the intent LLM call raises, the caller gets HTTP 500 with the
\* generic apology and the error flag, and the request made no search call
\* and no further LLM call.
C3_IntentFailureReply ==
  \A r \in Reqs :
    llmRaised[r] = "intent" =>
      /\ pc[r] = "done" /\ reply[r].sent
      /\ reply[r].status = 500
      /\ Get(Body(r), <<"message">>) = JStr(FailureMessage)
      /\ Get(Body(r), <<"error">>) = JBool(TRUE)
      /\ Get(Body(r), <<"flights">>) = JUndefined
      /\ llmCalls[r] = 1
      /\ searchCalls[r] = 0

C3_Witness == \E r \in Reqs : llmRaised[r] = "intent" /\ pc[r] = "done"

\* C4: a request whose message list is missing or empty is rejected with
\* HTTP 400 and makes no LLM call and no flight-search call.
C4_EmptyRequestRejected ==
  \A r \in Reqs :
    (pc[r] # "idle" /\ (messages[r].kind # "arr" \/ Len(messages[r].elems) = 0)) =>
      /\ pc[r] = "done" /\ reply[r].sent
      /\ reply[r].status = 400
      /\ llmCalls[r] = 0
      /\ searchCalls[r] = 0

C4_Witness ==
  \E r1, r2 \in Reqs :
    /\ pc[r1] = "done" /\ messages[r1] = JUndefined
    /\ pc[r2] = "done" /\ messages[r2] = JArr(<<>>)

\* C5: when the intent text is not valid JSON, or its parsed value has no
\* intent equal to "search_flights", the ChatResponse has the raw text as
\* message, no flights and no cards.
C5_GeneralReplyVerbatim ==
  \A r \in Reqs :
    LET j == JSONParse(intentResponse[r]) IN
    (IntentReturned(r) /\ (j.threw \/ Get(j.val, <<"intent">>) # JStr(<<"search_flights">>))) =>
      /\ IsChatResponse(r)
      /\ Get(Body(r), <<"message">>) = JStr(intentResponse[r])
      /\ Get(Body(r), <<"flights">>) = JNull
      /\ Get(Body(r), <<"cards">>) = JArr(<<>>)
      /\ searchCalls[r] = 0

C5_Witness ==
  \E r1, r2 \in Reqs :
    /\ IntentReturned(r1) /\ intentResponse[r1] = ProseText
    /\ IntentReturned(r2) /\ ~JSONParse(intentResponse[r2]).threw
    /\ Get(JSONParse(intentResponse[r2]).val, <<"intent">>) = JStr(<<"chitchat">>)

\* C6: when the search succeeds with zero offers, the ChatResponse has the
\* fixed apology as message, no flights and no cards.
C6_NoResultsReply ==
  \A r \in Reqs :
    (pc[r] = "done" /\ SearchReturned(r) /\ OfferCount(r) = 0) =>
      /\ IsChatResponse(r)
      /\ Get(Body(r), <<"message">>) = JStr(NoResultsMessage)
      /\ Get(Body(r), <<"flights">>) = JNull
      /\ Get(Body(r), <<"cards">>) = JArr(<<>>)

\* C7: in every ChatResponse, flights is non-null only if the search
\* succeeded and returned at least one offer.
C7_FlightsOnlyOnNonEmptySearch ==
  \A r \in Reqs :
    (IsChatResponse(r) /\ ~Nullish(Get(Body(r), <<"flights">>))) =>
      (SearchReturned(r) /\ OfferCount(r) >= 1)

\* C8 as stated: when the search returned at least one offer, whatever the
\* card generator returns, the ChatResponse has exactly 3 cards.
C8_ExactlyThreeCards ==
  \A r \in Reqs :
    CardsReturned(r) =>
      (Get(Body(r), <<"cards">>).kind = "arr" /\ Len(Get(Body(r), <<"cards">>).elems) = 3)

\* C8 amended: when the search returned at least one offer and the card
\* generator returned a text, the ChatResponse has exactly 3 cards when the
\* text is not valid JSON (the fallback triple), and otherwise its cards
\* are the parsed value as it is, of whatever length.
C8_ThreeCardsOnFallback ==
  \A r \in Reqs :
    CardsReturned(r) =>
      LET j == JSONParse(cardsResponse[r])
          c == Get(Body(r), <<"cards">>)
      IN /\ OfferCount(r) >= 1
         /\ IF j.threw THEN c.kind = "arr" /\ Len(c.elems) = 3 ELSE c = j.val

C8_Witness ==
  \E r1, r2 \in Reqs :
    /\ CardsReturned(r1) /\ cardsResponse[r1] = <<"[", "{">>
    /\ CardsReturned(r2) /\ cardsResponse[r2] = <<"[", "]">>

\* A value with the shape of a TravelCard: an object with a title and a
\* summary that are strings.
IsCardShape(v) ==
  v.kind = "obj" /\ Get(v, <<"title">>).kind = "str" /\ Get(v, <<"summary">>).kind = "str"

Malformed(text) ==
  LET j == JSONParse(text) IN
  \/ j.threw
  \/ j.val.kind # "arr"
  \/ \E i \in 1..Len(j.val.elems) : ~IsCardShape(j.val.elems[i])

\* C9: for every malformed card-generator output (not JSON, not an array,
\* or an array of elements that are no cards) the cards of the ChatResponse
\* are exactly the fallback triple Explore, Local Tips, Weather.
C9_FallbackOnMalformed ==
  \A r \in Reqs :
    (CardsReturned(r) /\ Malformed(cardsResponse[r])) =>
      Get(Body(r), <<"cards">>) = FallbackCards(parsed[r])

\* C10: every ChatResponse has a non-empty message, also when the LLM
\* returns the empty string.
C10_MessageNonEmpty ==
  \A r \in Reqs :
    IsChatResponse(r) =>
      (Get(Body(r), <<"message">>).kind = "str" /\ Get(Body(r), <<"message">>).s # <<>>)

\* C11: when the search returned at least one offer, the flights of every
\* ChatResponse returned for the request are the value the search
\* collaborator returned, unmodified.
C11_FlightsUnmodified ==
  \A r \in Reqs :
    (IsChatResponse(r) /\ SearchReturned(r) /\ OfferCount(r) >= 1) =>
      /\ Get(Body(r), <<"flights">>) = searchOutcome[r].val
      /\ Get(Get(Body(r), <<"flights">>), <<"items">>) = JArr(Offers(OfferCount(r)))

C11_Witness ==
  \E r1, r2 \in Reqs :
    /\ CardsReturned(r1) /\ OfferCount(r1) >= 1
    /\ IsChatResponse(r2) /\ SearchReturned(r2) /\ OfferCount(r2) >= 1
    /\ llmRaised[r2] = "summary"

\* The text the summarizer returned for request r, when it returned one.
SummaryReturned(r) ==
  \E i \in 1..Len(trace[r]) : trace[r][i].op = "summary" /\ trace[r][i].ev = "return"
SummaryText(r) ==
  trace[r][CHOOSE i \in 1..Len(trace[r]) :
             trace[r][i].op = "summary" /\ trace[r][i].ev = "return"].text

\* C13: when the search returned at least one offer and the summarizer
\* returned the text S, the message of the ChatResponse is S verbatim,
\* whatever the card generator does.
C13_SummaryVerbatim ==
  \A r \in Reqs :
    (Answered(r) /\ SummaryReturned(r)) =>
      /\ IsChatResponse(r)
      /\ Get(Body(r), <<"message">>) = JStr(SummaryText(r))

C13_Witness ==
  \E r1, r2 \in Reqs :
    /\ Answered(r1) /\ SummaryReturned(r1) /\ SummaryText(r1) = <<>>
    /\ CardsReturned(r1)
    /\ Answered(r2) /\ SummaryReturned(r2) /\ SummaryText(r2) # <<>>
    /\ llmRaised[r2] = "cards"

\* The order of the outbound calls of one request.
CallOrder == <<"intent", "search", "summary", "cards">>

\* The output of the call that settled at entry i of the trace of r lets
\* the next call start.
Gates(r, i) ==
  LET e == trace[r][i] IN
  /\ e.ev = "return"
  /\ CASE e.op = "intent" ->
            /\ ~JSONParse(e.text).threw
            /\ Get(JSONParse(e.text).val, <<"intent">>) = JStr(<<"search_flights">>)
       [] e.op = "search" -> SearchReturned(r) /\ OfferCount(r) >= 1
       [] e.op = "summary" -> TRUE
       [] OTHER -> FALSE

\* C17: within one request the outbound calls happen in the order intent,
\* search, summary, cards; no two are in flight at the same time; each call
\* starts only after the one before it returned with the output that gates
\* it.
C17_SequentialGatedCalls ==
  \A r \in Reqs :
    LET t == trace[r] IN
    /\ Len(t) <= 2 * Len(CallOrder)
    /\ \A i \in 1..Len(t) :
         IF i % 2 = 1
         THEN /\ t[i].ev = "call"
              /\ t[i].op = CallOrder[(i + 1) \div 2]
              /\ i > 1 => Gates(r, i - 1)
         ELSE /\ t[i].ev \in {"return", "raise"}
              /\ t[i].op = t[i - 1].op
    /\ (pc[r] \in {"intent", "search", "summary", "cards"}) <=>
         (Len(t) % 2 = 1 /\ t[Len(t)].op = pc[r])

C17_Witness == \E r \in Reqs : Len(trace[r]) = 8 /\ pc[r] = "done"

\* The number of calls of the operations in ops that request r has made.
NumCalls(r, ops) ==
  Cardinality({i \in 1..Len(trace[r]) : trace[r][i].ev = "call" /\ trace[r][i].op \in ops})

GeneralReply(r) ==
  /\ IsChatResponse(r)
  /\ \/ JSONParse(intentResponse[r]).threw
     \/ Get(JSONParse(intentResponse[r]).val, <<"intent">>) # JStr(<<"search_flights">>)

NoResultsReply(r) ==
  IsChatResponse(r) /\ Get(Body(r), <<"message">>) = JStr(NoResultsMessage)

C20_ParsedArrayAsIs ==
  \A r \in Reqs :
    LET j == JSONParse(cardsResponse[r]) IN
    (CardsReturned(r) /\ ~j.threw /\ j.val.kind = "arr") =>
      /\ Get(Body(r), <<"cards">>) = j.val
      /\ Get(Body(r), <<"cards">>) # FallbackCards(parsed[r])

C20_Witness ==
  \E r1, r2 \in Reqs :
    /\ CardsReturned(r1) /\ cardsResponse[r1] = <<"[", "]">>
    /\ CardsReturned(r2) /\ cardsResponse[r2] = <<"[", "1", ",", "null", ",", "'title'", "]">>

\* A value of the form {currency, items[]}.
IsSearchResult(v) ==
  v.kind = "obj" /\ Get(v, <<"currency">>).kind = "str" /\ Get(v, <<"items">>).kind = "arr"

\* C12: searchFlightsViaMCP raises whenever the flight server answers with
\* an HTTP non-success or a malformed payload; whenever it returns, the
\* value is of the form {currency, items[]}.
C12_RaisesOrWellFormed ==
  (fn.name = "client" /\ fn.done) =>
    /\ (fn.status \notin 200..299 \/ ~IsSearchResult(Get(fn.arg, <<"result">>))) => fn.raised
    /\ ~fn.raised => IsSearchResult(fn.res)

\* C14: the search is called with the origin, destination, departDate and
\* returnDate of the intent, with adults 1 when the intent has no adults
\* and currency "USD" when it has no currency, and the MCP request payload
\* carries the same values.
C14_SearchParamsForwarded ==
  (fn.name = "params" /\ fn.done) =>
    /\ \A k \in {<<"origin">>, <<"destination">>, <<"departDate">>, <<"returnDate">>} :
         Get(fn.res, k) = Get(fn.arg, k) /\ Get(fn.wire, k) = Get(fn.arg, k)
    /\ Get(fn.res, <<"adults">>) =
         (IF Truthy(Get(fn.arg, <<"adults">>)) THEN Get(fn.arg, <<"adults">>) ELSE JNum(1))
    /\ Get(fn.res, <<"currency">>) =
         (IF Truthy(Get(fn.arg, <<"currency">>)) THEN Get(fn.arg, <<"currency">>) ELSE JStr(<<"USD">>))
    /\ Get(fn.wire, <<"adults">>) = Get(fn.res, <<"adults">>)
    /\ Get(fn.wire, <<"currency">>) = Get(fn.res, <<"currency">>)

C14_Witness ==
  /\ fn.name = "params" /\ fn.done
  /\ Get(fn.arg, <<"adults">>) = JUndefined /\ Get(fn.arg, <<"currency">>) = JUndefined
  /\ Get(fn.arg, <<"returnDate">>) = JStr(<<"2025-03-24">>)
  /\ Get(fn.wire, <<"adults">>) = JNum(1)

\* C16: with the gateway and the flight server running and reachable, GET
\* /locations is answered with HTTP 200 and a locations object.
C16_LocationsAnswered ==
  (fn.name = "locations" /\ fn.done /\ fn.reachable) =>
    (fn.status = 200 /\ Get(fn.res, <<"locations">>).kind = "arr")

\* C19: every field of the parameter set handed to the search, the
\* round-trip flag included, is forwarded in the MCP request payload.
C19_EveryParamForwarded ==
  (fn.name = "params" /\ fn.done) =>
    \A i \in 1..Len(fn.res.fields) :
      Get(fn.wire, fn.res.fields[i].k) = fn.res.fields[i].v

\* Call c of getAccessToken has started.
Started(c) == calls[c].st # "idle"

\* The expiry of the token that the request of call k obtained.
ExpiryOf(k) == calls[k].now + (calls[k].life - 60) * 1000

\* A call issues an OAuth request exactly when it finds no token cached or
\* its time is at or after tokenExpiresAt.
RequestExactlyWhenStale ==
  \A c \in CallIds : Started(c) =>
    (~calls[c].cached <=> (calls[c].seenToken = 0 \/ calls[c].now >= calls[c].seenExpiry))

\* A token returned from the cache is returned before the expiry of its fetch.
NeverFromCacheAfterExpiry ==
  \A c \in CallIds : (Started(c) /\ calls[c].cached) =>
    (calls[c].ret \in calls[c].known /\ calls[c].now < ExpiryOf(calls[c].ret))

\* C15 as stated: a request is issued exactly when no token is cached or
\* the time is at or after tokenExpiresAt; every token obtained by a fetch
\* started at t with lifetime expires_in is returned by the calls made
\* before t + (expires_in - 60) * 1000, and never returned from the cache
\* by a call made at or after that time.
C15_EveryTokenReused ==
  /\ RequestExactlyWhenStale
  /\ NeverFromCacheAfterExpiry
  /\ \A c \in CallIds : Started(c) =>
       \A k \in calls[c].known :
         calls[c].now < ExpiryOf(k) => (calls[c].cached /\ calls[c].ret = k)

\* C15, amended: the same for the token that is in the cache when the call
\* is made, which is the token of the request that was answered last.
C15_CachedTokenReused ==
  /\ RequestExactlyWhenStale
  /\ NeverFromCacheAfterExpiry
  /\ \A c \in CallIds : Started(c) =>
       LET k == calls[c].seenToken IN
         /\ k # 0 => (k \in calls[c].known /\ calls[c].seenExpiry = ExpiryOf(k))
         /\ (k # 0 /\ calls[c].now < ExpiryOf(k)) => (calls[c].cached /\ calls[c].ret = k)
         /\ (k # 0 /\ calls[c].now >= ExpiryOf(k)) => ~calls[c].cached

\* One call obtains a token, a second one gets it from the cache, and a
\* third one, made at or after its expiry, issues a new request.
C15_Witness ==
  \E k, c, d \in CallIds :
    /\ k \in Obtained
    /\ calls[c].cached /\ calls[c].ret = k
    /\ calls[d].st = "done" /\ ~calls[d].cached
    /\ calls[d].seenToken = k /\ calls[d].now >= ExpiryOf(k)

\* Everything the handler holds for request r.
Locals(r) ==
  <<pc[r], messages[r], intentResponse[r], parsed[r], assistantMessage[r], flights[r],
    cards[r], cardsResponse[r], reply[r], llmCalls[r], searchCalls[r], llmRaised[r],
    searchOutcome[r], trace[r]>>

\* Two answered requests with the same messages and the same replies to
\* their collaborator calls have the same response.
OwnInputsDecideReply ==
  \A r, q \in Reqs :
    (Answered(r) /\ Answered(q) /\ messages[r] = messages[q]
       /\ trace[r] = trace[q] /\ searchOutcome[r] = searchOutcome[q])
      => reply[r] = reply[q]

C22_ServerFailureRaises ==
  (fn.name = "mcp" /\ fn.done /\ fn.env.amadeus.kind # "ok") =>
    (fn.raised /\ fn.res = JUndefined)

C22_Witness ==
  /\ fn.name = "mcp" /\ fn.done /\ fn.env.amadeus.kind = "oauth_error"
  /\ fn.status = 500 /\ Get(fn.wire, <<"result">>) = JObj(<<>>)
  /\ fn.raised

\* C24: if validateLLMConfig returns without raising, chat() selects a
\* configured provider and does not raise "LLM provider not configured".
C24_ValidatedConfigSelects ==
  (fn.name = "config" /\ fn.done /\ ~fn.raised) => fn.res # JStr(<<"none">>)

\* C26: a body that fails the schema is answered with 400 and no request
\* is made to the flight server for it.
C26_InvalidBodyRejected ==
  (fn.name = "search-flights" /\ fn.done) =>
    LET b == fn.arg
        short(v) == v.kind = "str" /\ Len(v.s) < 3
        long(v) == v.kind = "str" /\ Len(v.s) > 10
        outside(v, lo, hi) == v.kind = "num" /\ (v.n < lo \/ v.n > hi)
        invalid ==
          \/ b.kind # "obj"
          \/ \E k \in {<<"origin">>, <<"destination">>, <<"departDate">>} :
               Get(b, k).kind = "undefined"
          \/ short(Get(b, <<"origin">>)) \/ long(Get(b, <<"origin">>))
          \/ short(Get(b, <<"destination">>)) \/ long(Get(b, <<"destination">>))
          \/ outside(Get(b, <<"adults">>), 1, 9)
          \/ outside(Get(b, <<"maxStopovers">>), 0, 2)
          \/ ~SchemaAccepts(b)
    IN invalid => (fn.status = 400 /\ fn.wire = JUndefined)

\* A body whose only fault is adults = 10 is answered with 400.
C26_Witness ==
  /\ fn.name = "search-flights" /\ fn.done
  /\ fn.arg.kind = "obj" /\ Get(fn.arg, <<"adults">>) = JNum(10)
  /\ Get(fn.arg, <<"origin">>) = JStr(Chars3) /\ Get(fn.arg, <<"departDate">>) = JStr(Chars10)
  /\ Len(Get(fn.arg, <<"destination">>).s) = 3
  /\ Get(fn.arg, <<"maxStopovers">>) = JUndefined
  /\ fn.status = 400 /\ fn.wire = JUndefined

\* The cache is empty, or it holds the token of one OAuth response and the
\* expiry computed from the same response and the now of its call.
PairFromOneResponse ==
  \/ accessToken = 0 /\ tokenExpiresAt = 0
  \/ /\ accessToken \in Obtained
     /\ tokenExpiresAt = calls[accessToken].now + (calls[accessToken].life - 60) * 1000

\* C23: for every interleaving of getAccessToken calls the cached pair
\* (accessToken, tokenExpiresAt) comes from one OAuth response, and a failed
\* OAuth request leaves both variables unchanged.
C23_CachedPairConsistent ==
  /\ []PairFromOneResponse
  /\ [][\A c \in CallIds :
          (calls[c].st = "fetching" /\ calls'[c].st = "failed")
            => (accessToken' = accessToken /\ tokenExpiresAt' = tokenExpiresAt)]_vars

\* Two calls overlapped and obtained tokens with different expiries, and a
\* third one failed with a token in the cache.
C23_Witness ==
  \E c, d, e \in CallIds :
    /\ c \in Obtained /\ d \in Obtained /\ c # d
    /\ c \notin calls[d].known /\ d \notin calls[c].known
    /\ ExpiryOf(c) # ExpiryOf(d)
    /\ calls[e].st = "failed" /\ accessToken # 0

\* C25: every reply of /mcp to a flight_search/invoke request, on success
\* and on failure, carries the messageId and sessionId of the request it
\* answers, also with several requests in flight.
C25_ReplyCarriesOwnIds ==
  \A q \in McpIds :
    (mcp[q].pc = "done" /\ IsInvoke(mcp[q].mcpReq)) =>
      /\ mcp[q].reply.status \in {200, 500}
      /\ Get(mcp[q].reply.body, <<"messageId">>) = Get(mcp[q].mcpReq, <<"messageId">>)
      /\ Get(mcp[q].reply.body, <<"sessionId">>) = Get(mcp[q].mcpReq, <<"sessionId">>)

\* Two requests with different ids were in flight together; one was
\* answered with a result and the other with the error reply.
C25_Witness ==
  \E q, o \in McpIds :
    /\ mcp[q].pc = "done" /\ mcp[o].pc = "done" /\ mcp[q].overlapped
    /\ mcp[q].reply.status = 200 /\ mcp[o].reply.status = 500
    /\ Get(mcp[q].mcpReq, <<"messageId">>).kind = "str"
    /\ Get(mcp[o].mcpReq, <<"messageId">>).kind = "str"
    /\ Get(mcp[q].reply.body, <<"messageId">>) # Get(mcp[o].reply.body, <<"messageId">>)

====
